---- MODULE Spec2Model ----
(***************************************************************************)
(* arxiv_to_notion.py: the classification engine analyze_paper_with_gemini *)
(* (PDF download, the model-fallback loop over MODEL_LIST, the parser of   *)
(* the service's free-text answer) and the part of main() that calls it.   *)
(*                                                                         *)
(* A Python str is modelled as a sequence of one-character strings, so     *)
(* that lower(), strip(), split(), `in' and the regular-expression search  *)
(* are computed character by character.                                    *)
(***************************************************************************)
EXTENDS Integers, Sequences, FiniteSets, TLC

VARIABLES
    current_model_index,  \* the module-level cursor into MODEL_LIST
    pc,                   \* position of the program: "main", "download", "while",
                          \*   "generate", "returned", "raised", "publish", "finished"
    paper,                \* number of the paper main() is analysing (0: none yet)
    result,               \* the (related_status, summary_parts) last returned
    requests,             \* the generate_content calls of the current call of
                          \*   analyze_paper_with_gemini, in order, each with its reply
    last_requested,       \* index of the model named in the run's latest request
    entry_index,          \* the cursor when the current call was entered
    downloads,            \* the outcomes of the httpx.get calls of the current call
    printed,              \* the last diagnostic the current call printed
    sleeps,               \* the time.sleep durations of the current call, in order
    final_papers_to_add,  \* main()'s list of the papers to publish
    arxiv_papers,         \* the titles of the candidates fetch_arxiv_papers() gave
    existing_titles,      \* the set fetch_existing_titles() gave
    service,              \* how the reasoning service behaves during the run
    analyzed,             \* the calls of analyze_paper_with_gemini so far: the
                          \*   candidate passed and the status the call returned
    notion_posts,         \* the add_to_notion calls so far, in order
    quota_signals         \* the quota signals the service has given in the run

\* what no action changes: the two inputs of main() and the service's behaviour
inputs == <<arxiv_papers, existing_titles, service>>

vars == <<current_model_index, pc, paper, result, requests, last_requested,
          entry_index, downloads, printed, sleeps, final_papers_to_add,
          inputs, analyzed, notion_posts, quota_signals>>

-----------------------------------------------------------------------------
(* Bounds of the model.                                                    *)

MaxPapers == 2      \* papers main() hands to analyze_paper_with_gemini
MaxOverload == 2    \* overload signals the service gives during one call
LongSlack == 3      \* section lengths tried on each side of a length threshold

\* the paper titles of the runs; fetch_existing_titles() has found Title1, so
\* that a candidate with that title is known and one with Title2 is known or new
Title1 == "Speech LM"
Title2 == "Omni Agent"
Titles == {Title1, Title2}

-----------------------------------------------------------------------------
(* Python str operations.                                                  *)

Min(S) == CHOOSE x \in S : \A y \in S : x <= y
Max(S) == 0 - Min({0 - x : x \in S})

UpperChars == <<"A", "B", "C", "D", "E", "F", "G", "H", "I", "J", "K", "L", "M",
                "N", "O", "P", "Q", "R", "S", "T", "U", "V", "W", "X", "Y", "Z">>
LowerChars == <<"a", "b", "c", "d", "e", "f", "g", "h", "i", "j", "k", "l", "m",
                "n", "o", "p", "q", "r", "s", "t", "u", "v", "w", "x", "y", "z">>

LowerOf == [c \in {UpperChars[i] : i \in 1..26} |->
               LowerChars[CHOOSE i \in 1..26 : UpperChars[i] = c]]

\* str.lower() on one character
LowerChar(c) == IF c \in DOMAIN LowerOf THEN LowerOf[c] ELSE c

\* str.lower()
Lower(s) == [i \in 1..Len(s) |-> LowerChar(s[i])]

\* the characters str.strip() removes
Whitespace == {" ", "\t", "\n", "\r", "\f"}

\* str.strip()
Strip(s) ==
    LET keep == {i \in 1..Len(s) : s[i] \notin Whitespace}
    IN  IF keep = {} THEN <<>> ELSE SubSeq(s, Min(keep), Max(keep))

\* sub occurs in s at position p
MatchAt(sub, s, p) ==
    /\ p >= 1
    /\ p + Len(sub) - 1 <= Len(s)
    /\ \A i \in 1..Len(sub) : s[p + i - 1] = sub[i]

\* str.find(): the first position >= from where sub occurs in s, 0 when none
Find(sub, s, from) ==
    LET ps == {p \in from..(Len(s) - Len(sub) + 1) : MatchAt(sub, s, p)}
    IN  IF ps = {} THEN 0 ELSE Min(ps)

\* `sub in s'
Contains(sub, s) == Find(sub, s, 1) # 0

Separator == <<"|", "|", "|">>

\* str.split('|||', 1)
SplitOnce(s) ==
    LET p == Find(Separator, s, 1)
    IN  IF p = 0 THEN <<s>>
        ELSE <<SubSeq(s, 1, p - 1), SubSeq(s, p + Len(Separator), Len(s))>>

-----------------------------------------------------------------------------
(* The parser of lines 191-220.                                            *)

MOTIVATION == <<"M", "O", "T", "I", "V", "A", "T", "I", "O", "N">>
DIFFERENCES == <<"D", "I", "F", "F", "E", "R", "E", "N", "C", "E", "S">>
CONTRIBUTIONS == <<"C", "O", "N", "T", "R", "I", "B", "U", "T", "I", "O", "N", "S">>
METHOD == <<"M", "E", "T", "H", "O", "D">>
RESULTS == <<"R", "E", "S", "U", "L", "T", "S">>

tags == <<MOTIVATION, DIFFERENCES, CONTRIBUTIONS, METHOD, RESULTS>>

\* the literal a pattern \[TAG\] matches
Bracket(tag) == <<"[">> \o tag \o <<"]">>

NoTag == <<>>
NoMatch == [matched |-> FALSE, group |-> <<>>]

\* re.search(pattern, summary_part, re.DOTALL | re.IGNORECASE) where pattern is
\* \[current_tag\](.*?) followed, when there is a next tag, by (?=\[next_tag\]):
\* the leftmost start at which the pattern matches and, from it, the shortest
\* group (the quantifier is lazy) after which the rest of the pattern matches.
ReSearch(current_tag, next_tag, summary_part) ==
    LET low == Lower(summary_part)
        cur == Lower(Bracket(current_tag))
        nxt == Lower(Bracket(next_tag))
        Ends(p) == IF next_tag = NoTag
                   THEN {p + Len(cur)}
                   ELSE {q \in (p + Len(cur))..(Len(low) + 1) : MatchAt(nxt, low, q)}
        starts == {p \in 1..Len(low) : MatchAt(cur, low, p) /\ Ends(p) # {}}
    IN  IF starts = {} THEN NoMatch
        ELSE LET p0 == Min(starts)
                 q0 == Min(Ends(p0))
             IN  [matched |-> TRUE,
                  group |-> SubSeq(summary_part, p0 + Len(cur), q0 - 1)]

TruncateLimit == 2000
TruncateKeep == 1990
Ellipsis == <<".", ".", ".">>
NA == <<"N", "/", "A">>

\* Truncate with the test written >= (a variant that C8 must tell apart)
TruncateFromLimit(content) ==
    IF Len(content) >= TruncateLimit
    THEN SubSeq(content, 1, TruncateKeep) \o Ellipsis
    ELSE content

\* content[:1990] + '...' if len(content) > 2000 else content
Truncate(content) ==
    IF Len(content) > TruncateLimit
    THEN SubSeq(content, 1, TruncateKeep) \o Ellipsis
    ELSE content

\* the value the loop of lines 197-212 stores under tags[i]
ParsedSection(i, summary_part) ==
    LET current_tag == tags[i]
        next_tag == IF i + 1 <= Len(tags) THEN tags[i + 1] ELSE NoTag
        match == ReSearch(current_tag, next_tag, summary_part)
    IN  IF match.matched THEN Truncate(Strip(match.group)) ELSE NA

ParsedSummary(summary_part) ==
    [i \in 1..Len(tags) |-> ParsedSection(i, summary_part)]

Yes == <<"y", "e", "s">>

\* Relevance without .lower() (a variant that C7 must tell apart)
RelevanceCaseSensitive(answer_part) ==
    IF Contains(Yes, answer_part) THEN "Related" ELSE "Unrelated"

\* "Related" if "yes" in answer_part.lower() else "Unrelated"
Relevance(answer_part) ==
    IF Contains(Yes, Lower(answer_part)) THEN "Related" ELSE "Unrelated"

-----------------------------------------------------------------------------
(* What the two external services can answer.                              *)

NL == <<"\n">>
Word(c) == <<c>>

\* the spec's scenario "[MOTIVATION]\nfoo\n[METHOD]\nbar\n|||No."
TextScenario ==
    Bracket(MOTIVATION) \o NL \o <<"f", "o", "o">> \o NL \o
    Bracket(METHOD) \o NL \o <<"b", "a", "r">> \o NL \o
    Separator \o <<"N", "o", ".">>

\* an answer in the format the prompt asks for
TextFull ==
    Bracket(MOTIVATION) \o NL \o Word("m") \o NL \o
    Bracket(DIFFERENCES) \o NL \o Word("d") \o NL \o
    Bracket(CONTRIBUTIONS) \o NL \o Word("c") \o NL \o
    Bracket(METHOD) \o NL \o Word("h") \o NL \o
    Bracket(RESULTS) \o NL \o Word("r") \o NL \o
    Separator \o <<"Y", "e", "s", ".">>

TextNoSeparator ==
    <<"n", "o", " ", "s", "e", "p", "a", "r", "a", "t", "o", "r", " ",
      "h", "e", "r", "e">>

MsgOverloaded ==
    <<"T", "h", "e", " ", "m", "o", "d", "e", "l", " ", "i", "s", " ",
      "o", "v", "e", "r", "l", "o", "a", "d", "e", "d", ".">>
MsgResourceExhausted ==
    <<"4", "2", "9", " ", "R", "E", "S", "O", "U", "R", "C", "E", "_",
      "E", "X", "H", "A", "U", "S", "T", "E", "D">>
MsgQuota ==
    <<"e", "x", "c", "e", "e", "d", "e", "d", " ", "y", "o", "u", "r", " ",
      "q", "u", "o", "t", "a">>
MsgInternal == <<"5", "0", "0", " ", "I", "N", "T", "E", "R", "N", "A", "L">>
MsgOverloadedQuota ==
    <<"o", "v", "e", "r", "l", "o", "a", "d", "e", "d", ",", " ",
      "q", "u", "o", "t", "a">>

\* A reply of client.models.generate_content: a response whose .text is a str
\* ("text"), a response whose .text is None ("none"), or a raised exception
\* ("error") of class cls whose str() is body.
TextReply(t) == [kind |-> "text", cls |-> "", body |-> t]
NoneReply == [kind |-> "none", cls |-> "", body |-> <<>>]
ErrorReply(c, m) == [kind |-> "error", cls |-> c, body |-> m]
NoReply == [kind |-> "pending", cls |-> "", body |-> <<>>]

\* the replies the service gives in the runs of Spec
Replies ==
    { TextReply(TextScenario), TextReply(TextFull), TextReply(TextNoSeparator),
      TextReply(<<>>), NoneReply,
      ErrorReply("ServerError", MsgOverloaded),
      ErrorReply("ClientError", MsgResourceExhausted),
      ErrorReply("ServerError", MsgInternal) }

\* the service's quota / resource-exhaustion signals and its overload signals
QuotaReplies ==
    { ErrorReply("ClientError", MsgResourceExhausted),
      ErrorReply("ClientError", MsgQuota) }
OverloadReplies == { ErrorReply("ServerError", MsgOverloaded) }

\* what httpx.get / raise_for_status do: succeed, or raise a transport error
\* (httpx.RequestError) or a status error (httpx.HTTPStatusError)
DownloadOutcomes == {"ok", "RequestError", "HTTPStatusError"}

-----------------------------------------------------------------------------
(* analyze_paper_with_gemini.                                              *)

MODEL_LIST == <<"gemini-2.5-pro", "gemini-2.5-flash", "gemini-2.0-flash",
                "gemini-2.5-flash-lite-preview-06-17">>

NoModel == 0 - 1

\* The histories requests and sleeps keep the latest HistoryLimit entries of
\* the current call; no call in which the service answers at most MaxOverload
\* times with an overload signal has more.
HistoryLimit == MaxOverload + Len(MODEL_LIST) + 1
Log(history, entry) ==
    IF Len(history) < HistoryLimit
    THEN Append(history, entry)
    ELSE Append(Tail(history), entry)

\* line 295: the candidates (positions in arxiv_papers) whose title is not in
\* existing_titles, in the order of arxiv_papers
new_papers ==
    SelectSeq([i \in 1..Len(arxiv_papers) |-> i],
              LAMBDA i : arxiv_papers[i] \notin existing_titles)
NoneStatus == "None"
NoneResult == [related_status |-> NoneStatus, summary_parts |-> <<>>]
NotReturned == [related_status |-> "-", summary_parts |-> <<>>]

\* return value
Return(value) ==
    /\ pc' = "returned"
    /\ result' = value

\* an exception leaves analyze_paper_with_gemini
Propagate ==
    /\ pc' = "raised"
    /\ result' = NotReturned

\* CallAnalyze with the cursor reset on entry (a variant that C2 must tell apart)
CallAnalyzeResetting ==
    /\ pc = "main"
    /\ paper < Len(new_papers)
    /\ paper' = paper + 1
    /\ pc' = "download"
    /\ current_model_index' = 0
    /\ entry_index' = 0
    /\ requests' = <<>>
    /\ downloads' = <<>>
    /\ printed' = ""
    /\ sleeps' = <<>>
    /\ result' = NotReturned
    /\ analyzed' = Append(analyzed, [paper |-> new_papers[paper + 1],
                                     returned |-> NotReturned.related_status])
    /\ UNCHANGED <<last_requested, final_papers_to_add, inputs, notion_posts,
                   quota_signals>>

\* main() line 302 calls analyze_paper_with_gemini(paper) for the next paper
CallAnalyze ==
    /\ pc = "main"
    /\ paper < Len(new_papers)
    /\ paper' = paper + 1
    /\ pc' = "download"
    /\ entry_index' = current_model_index
    /\ requests' = <<>>
    /\ downloads' = <<>>
    /\ printed' = ""
    /\ sleeps' = <<>>
    /\ result' = NotReturned
    /\ analyzed' = Append(analyzed, [paper |-> new_papers[paper + 1],
                                     returned |-> NotReturned.related_status])
    /\ UNCHANGED <<current_model_index, last_requested, final_papers_to_add,
                   inputs, notion_posts, quota_signals>>

\* the classes the except clause of line 139 names
DownloadCaught == {"RequestError", "HTTPStatusError"}

\* DownloadPdf with one more attempt after a failure (a variant that C10 must
\* tell apart)
DownloadPdfRetrying(outcome) ==
    /\ pc = "download"
    /\ downloads' = Append(downloads, outcome)
    /\ IF outcome = "ok"
       THEN pc' = "while" /\ UNCHANGED <<result, printed>>
       ELSE IF outcome \in DownloadCaught
            THEN IF downloads = <<>>
                 THEN pc' = "download" /\ UNCHANGED <<result, printed>>
                 ELSE Return(NoneResult) /\ printed' = "download failed"
            ELSE Propagate /\ UNCHANGED printed
    /\ UNCHANGED <<current_model_index, paper, requests, last_requested,
                   entry_index, sleeps, final_papers_to_add, inputs, analyzed,
                   notion_posts, quota_signals>>

\* lines 133-141: the PDF download, with the outcome httpx gives
DownloadPdf(outcome) ==
    /\ pc = "download"
    /\ downloads' = Append(downloads, outcome)
    /\ IF outcome = "ok"
       THEN pc' = "while" /\ UNCHANGED <<result, printed>>
       ELSE IF outcome \in DownloadCaught
            THEN Return(NoneResult) /\ printed' = "download failed"
            ELSE Propagate /\ UNCHANGED printed
    /\ UNCHANGED <<current_model_index, paper, requests, last_requested,
                   entry_index, sleeps, final_papers_to_add, inputs, analyzed,
                   notion_posts, quota_signals>>

Download == \E outcome \in DownloadOutcomes : DownloadPdf(outcome)

\* GenerateContent with the roster used round-robin (a variant that C3 must
\* tell apart)
GenerateContentWrapping ==
    /\ pc = "while"
    /\ requests' = Log(requests,
                       [model |-> MODEL_LIST[(current_model_index % Len(MODEL_LIST)) + 1],
                        reply |-> NoReply])
    /\ last_requested' = current_model_index % Len(MODEL_LIST)
    /\ pc' = "generate"
    /\ UNCHANGED <<current_model_index, paper, result, entry_index, downloads,
                   printed, sleeps, final_papers_to_add, inputs, analyzed,
                   notion_posts, quota_signals>>

\* lines 177-189: the loop test passes and the request is sent to
\* MODEL_LIST[current_model_index]
GenerateContent ==
    /\ pc = "while"
    /\ current_model_index < Len(MODEL_LIST)
    /\ requests' = Log(requests,
                       [model |-> MODEL_LIST[current_model_index + 1],
                        reply |-> NoReply])
    /\ last_requested' = current_model_index
    /\ pc' = "generate"
    /\ UNCHANGED <<current_model_index, paper, result, entry_index, downloads,
                   printed, sleeps, final_papers_to_add, inputs, analyzed,
                   notion_posts, quota_signals>>

\* AllModelsExhausted with the cursor put back for the next paper (a variant
\* that C15 must tell apart)
AllModelsExhaustedStartingOver ==
    /\ pc = "while"
    /\ ~(current_model_index < Len(MODEL_LIST))
    /\ Return(NoneResult)
    /\ printed' = "all models exhausted"
    /\ current_model_index' = 0
    /\ UNCHANGED <<paper, requests, last_requested,
                   entry_index, downloads, sleeps, final_papers_to_add, inputs,
                   analyzed, notion_posts, quota_signals>>

\* lines 177, 234-235: the loop test fails
AllModelsExhausted ==
    /\ pc = "while"
    /\ ~(current_model_index < Len(MODEL_LIST))
    /\ Return(NoneResult)
    /\ printed' = "all models exhausted"
    /\ UNCHANGED <<current_model_index, paper, requests, last_requested,
                   entry_index, downloads, sleeps, final_papers_to_add, inputs,
                   analyzed, notion_posts, quota_signals>>

Overload == <<"o", "v", "e", "r", "l", "o", "a", "d">>
ResourceExhausted ==
    <<"r", "e", "s", "o", "u", "r", "c", "e", "_", "e", "x", "h", "a", "u",
      "s", "t", "e", "d">>
Quota == <<"q", "u", "o", "t", "a">>

\* line 223
IsOverload(msg) == Contains(Overload, Lower(msg))
\* line 226
IsQuota(msg) ==
    Contains(ResourceExhausted, Lower(msg)) \/ Contains(Quota, Lower(msg))

OverloadSleep == 30
QuotaSleep == 2

\* HandleException with the cursor moved two entries on a quota signal (a
\* variant that C4 must tell apart)
HandleExceptionSkipping(msg) ==
    IF IsOverload(msg)
    THEN /\ sleeps' = Log(sleeps, OverloadSleep)
         /\ pc' = "while"
         /\ UNCHANGED <<current_model_index, result, printed>>
    ELSE IF IsQuota(msg)
         THEN /\ printed' = "quota exhausted, switching model"
              /\ current_model_index' = current_model_index + 2
              /\ sleeps' = Log(sleeps, QuotaSleep)
              /\ pc' = "while"
              /\ UNCHANGED result
         ELSE /\ printed' = "unexpected error"
              /\ Return(NoneResult)
              /\ UNCHANGED <<current_model_index, sleeps>>

\* HandleException with a single retry on overload (a variant that C5 must
\* tell apart)
HandleExceptionGivingUp(msg) ==
    IF IsOverload(msg) /\ sleeps = <<>>
    THEN /\ sleeps' = Log(sleeps, OverloadSleep)
         /\ pc' = "while"
         /\ UNCHANGED <<current_model_index, result, printed>>
    ELSE IF IsQuota(msg) /\ ~IsOverload(msg)
         THEN /\ printed' = "quota exhausted, switching model"
              /\ current_model_index' = current_model_index + 1
              /\ sleeps' = Log(sleeps, QuotaSleep)
              /\ pc' = "while"
              /\ UNCHANGED result
         ELSE /\ printed' = "unexpected error"
              /\ Return(NoneResult)
              /\ UNCHANGED <<current_model_index, sleeps>>

\* HandleException with the next model tried after any error that is not an
\* overload signal (a variant that C16 must tell apart)
HandleExceptionFallingBack(msg) ==
    IF IsOverload(msg)
    THEN /\ sleeps' = Log(sleeps, OverloadSleep)
         /\ pc' = "while"
         /\ UNCHANGED <<current_model_index, result, printed>>
    ELSE /\ printed' = "quota exhausted, switching model"
         /\ current_model_index' = current_model_index + 1
         /\ sleeps' = Log(sleeps, QuotaSleep)
         /\ pc' = "while"
         /\ UNCHANGED result

\* HandleException with every error that is not a quota signal taken as
\* transient (a variant that C17 must tell apart)
HandleExceptionRetryingAll(msg) ==
    IF IsOverload(msg) \/ ~IsQuota(msg)
    THEN /\ sleeps' = Log(sleeps, OverloadSleep)
         /\ pc' = "while"
         /\ UNCHANGED <<current_model_index, result, printed>>
    ELSE /\ printed' = "quota exhausted, switching model"
         /\ current_model_index' = current_model_index + 1
         /\ sleeps' = Log(sleeps, QuotaSleep)
         /\ pc' = "while"
         /\ UNCHANGED result

\* HandleException with the same model asked again after a quota signal (a
\* variant that C18 must tell apart)
HandleExceptionStayingOnQuota(msg) ==
    IF IsOverload(msg)
    THEN /\ sleeps' = Log(sleeps, OverloadSleep)
         /\ pc' = "while"
         /\ UNCHANGED <<current_model_index, result, printed>>
    ELSE IF IsQuota(msg)
         THEN /\ printed' = "quota exhausted, switching model"
              /\ sleeps' = Log(sleeps, QuotaSleep)
              /\ pc' = "while"
              /\ UNCHANGED <<current_model_index, result>>
         ELSE /\ printed' = "unexpected error"
              /\ Return(NoneResult)
              /\ UNCHANGED <<current_model_index, sleeps>>

\* HandleException with the quota test made before the overload test (a
\* variant that C19 must tell apart)
HandleExceptionQuotaFirst(msg) ==
    IF IsQuota(msg)
    THEN /\ printed' = "quota exhausted, switching model"
         /\ current_model_index' = current_model_index + 1
         /\ sleeps' = Log(sleeps, QuotaSleep)
         /\ pc' = "while"
         /\ UNCHANGED result
    ELSE IF IsOverload(msg)
         THEN /\ sleeps' = Log(sleeps, OverloadSleep)
              /\ pc' = "while"
              /\ UNCHANGED <<current_model_index, result, printed>>
         ELSE /\ printed' = "unexpected error"
              /\ Return(NoneResult)
              /\ UNCHANGED <<current_model_index, sleeps>>

\* lines 222-232: the handler of the exceptions raised in the try block
HandleException(msg) ==
    IF IsOverload(msg)
    THEN /\ sleeps' = Log(sleeps, OverloadSleep)
         /\ pc' = "while"
         /\ UNCHANGED <<current_model_index, result, printed>>
    ELSE IF IsQuota(msg)
         THEN /\ printed' = "quota exhausted, switching model"
              /\ current_model_index' = current_model_index + 1
              /\ sleeps' = Log(sleeps, QuotaSleep)
              /\ pc' = "while"
              /\ UNCHANGED result
         ELSE /\ printed' = "unexpected error"
              /\ Return(NoneResult)
              /\ UNCHANGED <<current_model_index, sleeps>>

\* the classes `except errors.APIError' would catch (a variant that C9 must
\* tell apart)
ApiErrorClasses == {"ServerError", "ClientError"}

\* the classes `except Exception' of line 222 catches, among those raised
ExceptionClasses == {"ServerError", "ClientError", "TypeError"}

\* an exception of class cls is raised inside the try block of lines 182-220
RaiseInTry(cls, msg) ==
    IF cls \in ExceptionClasses
    THEN HandleException(msg)
    ELSE Propagate /\ UNCHANGED <<current_model_index, sleeps, printed>>

\* str(e) of the TypeError that None[:200] raises at line 219
MsgNotSubscriptable ==
    <<"'", "N", "o", "n", "e", "T", "y", "p", "e", "'", " ", "o", "b", "j",
      "e", "c", "t", " ", "i", "s", " ", "n", "o", "t", " ", "s", "u", "b",
      "s", "c", "r", "i", "p", "t", "a", "b", "l", "e">>

\* HandleResponse with a malformed answer answered by a switch to the next
\* model (a variant that C6 must tell apart)
HandleResponseFallingBack(r) ==
    IF r.kind = "text" /\ r.body # <<>> /\ Contains(Separator, r.body)
    THEN LET parts == SplitOnce(Strip(r.body))
             summary_part == Strip(parts[1])
             answer_part == Strip(parts[2])
             parsed_summary == ParsedSummary(summary_part)
         IN  /\ Return([related_status |-> Relevance(answer_part),
                        summary_parts |-> parsed_summary])
             /\ UNCHANGED <<current_model_index, sleeps, printed>>
    ELSE /\ printed' = "unexpected format"
         /\ current_model_index' = current_model_index + 1
         /\ pc' = "while"
         /\ UNCHANGED <<result, sleeps>>

\* lines 191-220: generate_content returned a response
HandleResponse(r) ==
    IF r.kind = "text" /\ r.body # <<>> /\ Contains(Separator, r.body)
    THEN LET parts == SplitOnce(Strip(r.body))
             summary_part == Strip(parts[1])
             answer_part == Strip(parts[2])
             parsed_summary == ParsedSummary(summary_part)
         IN  \* line 215 holds: the loop has stored a value under every tag
             /\ Return([related_status |-> Relevance(answer_part),
                        summary_parts |-> parsed_summary])
             /\ UNCHANGED <<current_model_index, sleeps, printed>>
    ELSE IF r.kind = "none"
         THEN \* line 219: response.text[:200] on None raises TypeError
              RaiseInTry("TypeError", MsgNotSubscriptable)
         ELSE /\ printed' = "unexpected format"
              /\ Return(NoneResult)
              /\ UNCHANGED <<current_model_index, sleeps>>

\* the overload signals the service has given during the current call
OverloadCount == Cardinality({i \in 1..Len(sleeps) : sleeps[i] = OverloadSleep})

\* what the program does with reply r to the pending request
Receive(r) ==
    /\ pc = "generate"
    /\ requests' = [requests EXCEPT ![Len(requests)].reply = r]
    /\ IF r.kind = "error" THEN RaiseInTry(r.cls, r.body) ELSE HandleResponse(r)
    /\ quota_signals' = IF r \in QuotaReplies THEN quota_signals + 1
                                              ELSE quota_signals
    /\ UNCHANGED <<paper, last_requested, entry_index, downloads,
                   final_papers_to_add, inputs, analyzed, notion_posts>>

\* generate_content returns or raises (the service is asked to signal
\* overload at most MaxOverload times during one call)
GenerateReplies ==
    \E r \in Replies :
        /\ service = "answering"
        /\ (r.kind = "error" /\ IsOverload(r.body)) => OverloadCount < MaxOverload
        /\ Receive(r)

\* ReturnToMain with every analysed paper kept (a variant that C11 must tell
\* apart)
ReturnToMainKeepingAll ==
    /\ pc = "returned"
    /\ final_papers_to_add' =
          Append(final_papers_to_add,
                 [paper |-> new_papers[paper],
                  related_status |-> result.related_status])
    /\ analyzed' = [analyzed EXCEPT ![Len(analyzed)].returned = result.related_status]
    /\ pc' = "main"
    /\ UNCHANGED <<current_model_index, paper, result, requests, last_requested,
                   entry_index, downloads, printed, sleeps, inputs, notion_posts,
                   quota_signals>>

\* main() lines 302-310: the returned pair is kept when both are truthy
ReturnToMain ==
    /\ pc = "returned"
    /\ final_papers_to_add' =
          IF result.related_status # NoneStatus /\ result.summary_parts # <<>>
          THEN Append(final_papers_to_add,
                      [paper |-> new_papers[paper],
                       related_status |-> result.related_status])
          ELSE final_papers_to_add
    /\ analyzed' = [analyzed EXCEPT ![Len(analyzed)].returned = result.related_status]
    /\ pc' = "main"
    /\ UNCHANGED <<current_model_index, paper, result, requests, last_requested,
                   entry_index, downloads, printed, sleeps, inputs, notion_posts,
                   quota_signals>>

\* main() lines 298, 312-316: the loop over new_papers ends (it is not entered
\* when arxiv_papers is empty, line 293); publishing starts when there is a
\* paper to publish
Finish ==
    /\ pc = "main"
    /\ paper = Len(new_papers)
    /\ pc' = IF final_papers_to_add = <<>> THEN "finished" ELSE "publish"
    /\ UNCHANGED <<current_model_index, paper, result, requests, last_requested,
                   entry_index, downloads, printed, sleeps, final_papers_to_add,
                   inputs, analyzed, notion_posts, quota_signals>>

\* main() lines 318-320: add_to_notion is called with the next entry of
\* final_papers_to_add (lines 238-277: whatever the store answers, it prints
\* and returns)
AddToNotion ==
    /\ pc = "publish"
    /\ notion_posts' = Append(notion_posts,
                              final_papers_to_add[Len(notion_posts) + 1])
    /\ pc' = IF Len(notion_posts') = Len(final_papers_to_add)
             THEN "finished" ELSE "publish"
    /\ UNCHANGED <<current_model_index, paper, result, requests, last_requested,
                   entry_index, downloads, printed, sleeps, final_papers_to_add,
                   inputs, analyzed, quota_signals>>

\* the lists fetch_arxiv_papers() can give: up to MaxPapers candidates, two
\* of which may carry the same title
CandidateLists == UNION {[1..n -> Titles] : n \in 0..MaxPapers}

\* the sets fetch_existing_titles() can give
KnownTitleIndexes == {S \in SUBSET Titles : Title1 \in S}

Init ==
    /\ current_model_index = 0
    /\ pc = "main"
    /\ paper = 0
    /\ result = NotReturned
    /\ requests = <<>>
    /\ last_requested = NoModel
    /\ entry_index = 0
    /\ downloads = <<>>
    /\ printed = ""
    /\ sleeps = <<>>
    /\ final_papers_to_add = <<>>
    /\ arxiv_papers \in CandidateLists
    /\ existing_titles \in KnownTitleIndexes
    /\ service = "answering"
    /\ analyzed = <<>>
    /\ notion_posts = <<>>
    /\ quota_signals = 0

Next ==
    \/ CallAnalyze
    \/ Download
    \/ GenerateContent
    \/ AllModelsExhausted
    \/ GenerateReplies
    \/ ReturnToMain
    \/ Finish
    \/ AddToNotion

Spec == Init /\ [][Next]_vars

-----------------------------------------------------------------------------
(* One reply, drawn from a wide family, handled by lines 191-232: the      *)
(* program has downloaded the first paper and sent its first request.      *)

SectionBody ==
    << <<"Y", "e", "s", " ", "f", "o", "o">>, <<"d">>, <<"c", " ", "c">>,
       <<"b", "a", "r">>, <<"r">> >>

\* section i of an answer: left out (0), as the prompt asks (1), or with the
\* tag in lower case and other spacing (2)
SectionForms == {0, 1, 2}
SectionText(i, form) ==
    CASE form = 0 -> <<>>
      [] form = 1 -> Bracket(tags[i]) \o NL \o SectionBody[i] \o NL
      [] form = 2 -> Lower(Bracket(tags[i])) \o <<" ">> \o SectionBody[i]

SummaryText(forms) ==
    SectionText(1, forms[1]) \o SectionText(2, forms[2]) \o
    SectionText(3, forms[3]) \o SectionText(4, forms[4]) \o
    SectionText(5, forms[5])

Answers ==
    { <<"N", "o", ".">>, <<"Y", "e", "s", ".">>, <<" ", "Y", "E", "S", "\n">>,
      <<"y", "e", "s", ",", " ", "n", "o">>, <<"N", "O">>,
      <<"m", "a", "y", "b", "e">>, <<>>,
      <<"N", "o", ".">> \o Separator \o <<"y", "e", "s">> }

\* what follows the summary: the separator and a judgment, or a judgment alone
Tails == {Separator \o a : a \in Answers} \cup {<<"Y", "e", "s", ".">>, <<>>}

\* answers whose tags are repeated or out of order
OddTexts ==
    { Bracket(METHOD) \o Word("a") \o Bracket(METHOD) \o Word("b") \o
          Bracket(RESULTS) \o Word("c") \o Separator \o <<"n", "o">>,
      Bracket(DIFFERENCES) \o Word("a") \o Bracket(MOTIVATION) \o Word("b") \o
          Bracket(DIFFERENCES) \o Word("c") \o Separator \o <<"Y", "E", "S">>,
      Word("x") \o Separator \o Bracket(MOTIVATION) \o Word("a") \o
          Bracket(DIFFERENCES) \o <<"n", "o">> }

Digits == <<"0", "1", "2", "3", "4", "5", "6", "7", "8", "9">>
Fill(n) == [i \in 1..n |-> Digits[(i % 10) + 1]]

\* an answer whose first section has n characters between blanks
LongText(n) ==
    Bracket(MOTIVATION) \o <<" ">> \o Fill(n) \o NL \o Bracket(DIFFERENCES) \o
    Word("d") \o Separator \o <<"Y", "e", "s", ".">>

LongLengths ==
    ((TruncateKeep - LongSlack)..(TruncateKeep + LongSlack)) \cup
    ((TruncateLimit - LongSlack)..(TruncateLimit + LongSlack))

ReplyTexts ==
    {SummaryText(forms) \o t : forms \in [1..Len(tags) -> SectionForms], t \in Tails}
        \cup OddTexts \cup {LongText(n) : n \in LongLengths}

AnyReplies ==
    Replies \cup {TextReply(t) : t \in ReplyTexts} \cup
    { ErrorReply("ClientError", MsgQuota),
      ErrorReply("ServerError", MsgOverloadedQuota) }

InitReply ==
    /\ current_model_index = 0
    /\ pc = "generate"
    /\ paper = 1
    /\ result = NotReturned
    /\ requests = <<[model |-> MODEL_LIST[1], reply |-> NoReply]>>
    /\ last_requested = 0
    /\ entry_index = 0
    /\ downloads = <<"ok">>
    /\ printed = ""
    /\ sleeps = <<>>
    /\ final_papers_to_add = <<>>
    /\ arxiv_papers = <<Title2>>
    /\ existing_titles = {Title1}
    /\ service = "answering"
    /\ analyzed = <<[paper |-> 1, returned |-> NotReturned.related_status]>>
    /\ notion_posts = <<>>
    /\ quota_signals = 0

ReplyNext == \E r \in AnyReplies : Receive(r)

ReplySpec == InitReply /\ [][ReplyNext]_vars

-----------------------------------------------------------------------------
(* The whole run again, with a service that either answers as in Spec or   *)
(* answers every request with an overload signal, and with the program and *)
(* the services taking their steps: the program is one sequential process, *)
(* and every call of httpx.get and of generate_content returns or raises.  *)

\* generate_content raises an overload signal, as it does on every request
AlwaysOverloaded ==
    /\ service = "overloaded"
    /\ \E r \in OverloadReplies : Receive(r)

LiveInit ==
    /\ current_model_index = 0
    /\ pc = "main"
    /\ paper = 0
    /\ result = NotReturned
    /\ requests = <<>>
    /\ last_requested = NoModel
    /\ entry_index = 0
    /\ downloads = <<>>
    /\ printed = ""
    /\ sleeps = <<>>
    /\ final_papers_to_add = <<>>
    /\ arxiv_papers = <<Title2, Title1, Title2>>
    /\ existing_titles = {Title1}
    /\ service \in {"answering", "overloaded"}
    /\ analyzed = <<>>
    /\ notion_posts = <<>>
    /\ quota_signals = 0

LiveNext ==
    \/ CallAnalyze
    \/ Download
    \/ GenerateContent
    \/ AllModelsExhausted
    \/ GenerateReplies
    \/ AlwaysOverloaded
    \/ ReturnToMain
    \/ Finish
    \/ AddToNotion

LiveSpec == LiveInit /\ [][LiveNext]_vars /\ WF_vars(LiveNext)

-----------------------------------------------------------------------------
(* Vocabulary of the properties.                                           *)

\* the index in MODEL_LIST (from 0) of a model name
ModelIndex(name) ==
    CHOOSE i \in 0..(Len(MODEL_LIST) - 1) : MODEL_LIST[i + 1] = name

\* the current call of analyze_paper_with_gemini has returned
CallReturned == paper >= 1 /\ pc \in {"returned", "main", "publish", "finished"}

LastReply == requests[Len(requests)].reply

IsSuccess(res) ==
    /\ res.related_status \in {"Related", "Unrelated"}
    /\ Len(res.summary_parts) = Len(tags)

\* word occurs in t at position p, letter case ignored
SaysAt(word, t, p) ==
    /\ p + Len(word) - 1 <= Len(t)
    /\ \A k \in 1..Len(word) : LowerChar(t[p + k - 1]) = LowerChar(word[k])

Says(word, t) == \E p \in 1..Len(t) : SaysAt(word, t, p)

SeparatorAt(t, p) ==
    p + 2 <= Len(t) /\ t[p] = "|" /\ t[p + 1] = "|" /\ t[p + 2] = "|"

HasSeparator(t) == \E p \in 1..Len(t) : SeparatorAt(t, p)

FirstSeparator(t) == Min({p \in 1..Len(t) : SeparatorAt(t, p)})

\* the text before, and the text after, the first separator
SummaryOf(t) == Strip(SubSeq(t, 1, FirstSeparator(t) - 1))
JudgmentOf(t) == SubSeq(t, FirstSeparator(t) + 3, Len(t))

No == <<"n", "o">>

TagPresent(i, t) == Says(Bracket(tags[i]), t)

\* the trimmed text from the first tag i of t to the next tag, or to the end
TextAfterTag(i, t) ==
    LET tag == Bracket(tags[i])
        p == Min({q \in 1..Len(t) : SaysAt(tag, t, q)})
        first == p + Len(tag)
        stops == {q \in first..Len(t) :
                     \E j \in 1..Len(tags) : SaysAt(Bracket(tags[j]), t, q)}
        last == IF stops = {} THEN Len(t) ELSE Min(stops) - 1
    IN  Strip(SubSeq(t, first, last))

\* a reply that carries no separator: no text, empty text, or text without |||
NoSeparatorReply(r) ==
    r.kind = "none" \/ (r.kind = "text" /\ ~HasSeparator(r.body))

WellFormedReply(r) == r.kind = "text" /\ HasSeparator(r.body)

\* the step in which the program takes the reply to its pending request
Received == pc = "generate" /\ pc' # "generate"

-----------------------------------------------------------------------------
(* The properties.                                                         *)

\* C1: a response with the separator and a yes/no judgment that lacks one or
\* more of the five tags gives a Success whose summary holds "N/A" for exactly
\* the keys whose tag is missing and, for every key whose tag is present, the
\* trimmed text that follows the tag.
C1_MissingTagsBecomeNA ==
    ( /\ CallReturned
      /\ requests # <<>>
      /\ WellFormedReply(LastReply)
      /\ Says(Yes, JudgmentOf(LastReply.body)) \/ Says(No, JudgmentOf(LastReply.body))
      /\ \E i \in 1..Len(tags) : ~TagPresent(i, SummaryOf(LastReply.body)) )
    => /\ IsSuccess(result)
       /\ \A i \in 1..Len(tags) :
             result.summary_parts[i] =
                IF TagPresent(i, SummaryOf(LastReply.body))
                THEN TextAfterTag(i, SummaryOf(LastReply.body))
                ELSE NA

\* C2: the cursor never decreases, and every request names the model at the
\* cursor, whose index is not below that of the run's previous request.
C2_CursorNeverDecreases ==
    [][ /\ current_model_index' >= current_model_index
        /\ (Len(requests') = Len(requests) + 1) =>
              /\ current_model_index < Len(MODEL_LIST)
              /\ requests'[Len(requests')].model = MODEL_LIST[current_model_index + 1]
              /\ last_requested <= current_model_index ]_vars

C2_Witness ==
    /\ paper = 2
    /\ pc = "generate"
    /\ entry_index = 1
    /\ current_model_index = 2
    /\ requests[Len(requests)].model = MODEL_LIST[3]

\* C3 as stated: a call entered with the cursor past the last roster entry
\* returns the exhausted failure with no download and no request.
C3_NoNetworkCallOnceExhausted ==
    (paper >= 1 /\ entry_index >= Len(MODEL_LIST) /\ pc = "returned")
    => /\ result = NoneResult
       /\ printed = "all models exhausted"
       /\ requests = <<>>
       /\ downloads = <<>>

\* C3 as amended: a call entered with the cursor past the last roster entry
\* sends no request to the reasoning service and returns (None, None); it
\* still attempts the download, once, and reports exhaustion when the download
\* succeeds.
C3_NoRequestOnceExhausted ==
    (paper >= 1 /\ entry_index >= Len(MODEL_LIST))
    => /\ requests = <<>>
       /\ current_model_index = entry_index
       /\ CallReturned =>
             /\ result = NoneResult
             /\ Len(downloads) = 1
             /\ downloads[1] = "ok" => printed = "all models exhausted"
             /\ downloads[1] # "ok" => printed = "download failed"

C3_Witness ==
    /\ paper = 2
    /\ pc = "returned"
    /\ entry_index = Len(MODEL_LIST)
    /\ downloads = <<"ok">>
    /\ requests = <<>>
    /\ printed = "all models exhausted"

\* C4: a quota signal advances the cursor by exactly one and the same paper
\* is retried with the next model; a paper that gets a quota signal on one
\* model and a well-formed answer on the next returns the Success of that
\* answer with the cursor one further; and the first request of a later paper
\* goes to the model of the run's previous request.
C4_QuotaAdvancesToNextModel ==
    /\ [][ (Received /\ requests'[Len(requests')].reply \in QuotaReplies)
           => /\ current_model_index' = current_model_index + 1
              /\ pc' = "while"
              /\ paper' = paper ]_vars
    /\ [](\A j \in 1..(Len(requests) - 1) :
             requests[j].reply \in QuotaReplies
             => ModelIndex(requests[j + 1].model) = ModelIndex(requests[j].model) + 1)
    /\ []( ( /\ CallReturned
             /\ Len(requests) = 2
             /\ requests[1].reply \in QuotaReplies
             /\ requests[2].reply = TextReply(TextFull) )
           => /\ result.related_status = "Related"
              /\ result.summary_parts[1] = <<"m">>
              /\ requests[1].model = MODEL_LIST[entry_index + 1]
              /\ requests[2].model = MODEL_LIST[entry_index + 2]
              /\ current_model_index = entry_index + 1 )
    /\ [][ (pc = "while" /\ pc' = "generate" /\ requests = <<>>
                /\ last_requested # NoModel)
           => last_requested' = last_requested ]_vars

C4_Witness ==
    /\ paper = 2
    /\ pc = "generate"
    /\ entry_index = 1
    /\ current_model_index = 1
    /\ requests = <<[model |-> MODEL_LIST[2], reply |-> NoReply]>>
    /\ final_papers_to_add = <<[paper |-> 1, related_status |-> "Related"]>>

\* C5: an overload signal is answered by one pause and a retry of the same
\* model with the cursor unchanged, however many came before: n overload
\* signals followed by a well-formed response give n pauses, n + 1 requests
\* to the same model and the Success of the final response.
C5_OverloadRetriesSameModel ==
    LET n == Len(requests) - 1
        overloads == {j \in 1..Len(requests) : requests[j].reply \in OverloadReplies}
    IN  paper >= 1 =>
        /\ Cardinality({j \in 1..Len(sleeps) : sleeps[j] = OverloadSleep})
              = Cardinality(overloads)
        /\ \A j \in overloads :
              IF j < Len(requests)
              THEN requests[j + 1].model = requests[j].model
              ELSE pc = "while" /\ current_model_index = ModelIndex(requests[j].model)
        /\ (pc = "while" /\ overloads = 1..Len(requests)
               /\ current_model_index < Len(MODEL_LIST))
           => /\ ENABLED GenerateContent
              /\ current_model_index = entry_index
        /\ ( /\ CallReturned
             /\ requests # <<>>
             /\ overloads = 1..n
             /\ WellFormedReply(LastReply) )
           => /\ sleeps = [j \in 1..n |-> OverloadSleep]
              /\ \A j \in 1..(n + 1) : requests[j].model = MODEL_LIST[entry_index + 1]
              /\ current_model_index = entry_index
              /\ IsSuccess(result)
              /\ result.related_status =
                    IF Says(Yes, JudgmentOf(LastReply.body)) THEN "Related" ELSE "Unrelated"

C5_Witness ==
    /\ pc = "returned"
    /\ Len(requests) = 3
    /\ requests[1].reply \in OverloadReplies
    /\ requests[2].reply \in OverloadReplies
    /\ requests[3].reply = TextReply(TextFull)
    /\ sleeps = <<OverloadSleep, OverloadSleep>>
    /\ result.related_status = "Related"

\* C6: a reply without the separator (text without |||, empty text, no text)
\* ends the call with (None, None): the request it answers is the last one
\* of the call, and the cursor still points at the model that was asked.
C6_NoSeparatorFailsAtOnce ==
    paper >= 1 =>
    \A j \in 1..Len(requests) :
        NoSeparatorReply(requests[j].reply)
        => /\ j = Len(requests)
           /\ CallReturned
           /\ result = NoneResult
           /\ current_model_index = ModelIndex(requests[j].model)
           /\ Len(sleeps) = j - 1

C6_Witness ==
    /\ pc = "returned"
    /\ requests = <<[model |-> MODEL_LIST[1], reply |-> TextReply(TextNoSeparator)]>>
    /\ result = NoneResult
    /\ current_model_index = 0

\* C7: for a response with the separator the label comes from the text after
\* the first separator, letter case ignored: Related when it says "yes",
\* Unrelated when it says "no" and not "yes"; both are a Success.
C7_RelevanceFromJudgment ==
    (CallReturned /\ requests # <<>> /\ WellFormedReply(LastReply))
    => /\ IsSuccess(result)
       /\ Says(Yes, JudgmentOf(LastReply.body)) => result.related_status = "Related"
       /\ (Says(No, JudgmentOf(LastReply.body)) /\ ~Says(Yes, JudgmentOf(LastReply.body)))
             => result.related_status = "Unrelated"

C7_Witness ==
    /\ pc = "returned"
    /\ LastReply = TextReply(SummaryText(<<1, 1, 1, 1, 1>>) \o Separator
                                \o <<" ", "Y", "E", "S", "\n">>)
    /\ result.related_status = "Related"

\* C8: a recovered, trimmed section value of more than 2000 characters is
\* stored as its first 1990 characters followed by "...", any other is stored
\* as it is; no stored value has more than 2000 characters.
C8_LongSectionsTruncated ==
    (CallReturned /\ requests # <<>> /\ WellFormedReply(LastReply))
    => \A i \in 1..Len(tags) :
          LET match == ReSearch(tags[i],
                                IF i < Len(tags) THEN tags[i + 1] ELSE NoTag,
                                SummaryOf(LastReply.body))
              v == Strip(match.group)
              stored == result.summary_parts[i]
          IN  /\ Len(stored) <= 2000
              /\ match.matched =>
                    IF Len(v) > 2000
                    THEN /\ Len(stored) = 1993
                         /\ \A k \in 1..1990 : stored[k] = v[k]
                         /\ \A k \in 1991..1993 : stored[k] = "."
                    ELSE stored = v

C8_Witness ==
    /\ pc = "returned"
    /\ LastReply = TextReply(LongText(2001))
    /\ Len(result.summary_parts[1]) = 1993

\* C9: no exception leaves analyze_paper_with_gemini; what it returns is
\* (None, None) or a label with a summary of five texts.
C9_NoUncaughtFault ==
    /\ pc # "raised"
    /\ pc = "returned" =>
          \/ result = NoneResult
          \/ /\ IsSuccess(result)
             /\ \A i \in 1..Len(tags) : result.summary_parts[i] \in Seq(STRING)

C9_Witness ==
    /\ pc = "returned"
    /\ requests # <<>>
    /\ LastReply = NoneReply
    /\ result = NoneResult
    /\ printed = "unexpected error"

\* C10: a failed download (transport error or status error) ends the call with
\* (None, None) after that one attempt: no second download, no request, no
\* pause, the cursor as it was.
C10_DownloadFailureIsFinal ==
    (paper >= 1 /\ downloads # <<>> /\ downloads[1] # "ok")
    => /\ CallReturned
       /\ result = NoneResult
       /\ Len(downloads) = 1
       /\ requests = <<>>
       /\ sleeps = <<>>
       /\ current_model_index = entry_index

C10_Witness ==
    /\ pc = "returned"
    /\ downloads = <<"HTTPStatusError">>
    /\ result = NoneResult
    /\ requests = <<>>

\* the candidates passed to analyze_paper_with_gemini so far, and those among
\* them whose call returned a result (a label and a summary)
Analyzed == {analyzed[k].paper : k \in 1..Len(analyzed)}
Succeeded ==
    {analyzed[k].paper : k \in {j \in 1..Len(analyzed) :
                                   analyzed[j].returned \in {"Related", "Unrelated"}}}
Posted == {notion_posts[k].paper : k \in 1..Len(notion_posts)}

\* C11: in one run, no candidate whose title is in existing_titles is passed
\* to analyze_paper_with_gemini and no candidate is passed twice; when the
\* loop has ended every other candidate has been passed once; the papers kept
\* for publishing are those whose call returned a result, each with the label
\* returned; and when the run has finished the papers handed to add_to_notion
\* are exactly those, each handed once.
C11_KnownSkippedOthersOnceSuccessPublished ==
    /\ \A k \in 1..Len(analyzed) :
          /\ arxiv_papers[analyzed[k].paper] \notin existing_titles
          /\ \A j \in 1..Len(analyzed) : analyzed[j].paper = analyzed[k].paper => j = k
    /\ pc \in {"publish", "finished"} =>
          Analyzed = {i \in 1..Len(arxiv_papers) : arxiv_papers[i] \notin existing_titles}
    /\ pc \in {"main", "publish", "finished"} =>
          /\ {final_papers_to_add[k].paper : k \in 1..Len(final_papers_to_add)} = Succeeded
          /\ \A k \in 1..Len(final_papers_to_add) :
                \E j \in 1..Len(analyzed) :
                    /\ analyzed[j].paper = final_papers_to_add[k].paper
                    /\ analyzed[j].returned = final_papers_to_add[k].related_status
    /\ Posted \subseteq Succeeded
    /\ \A k \in 1..Len(notion_posts) :
          /\ notion_posts[k] = final_papers_to_add[k]
          /\ \A j \in 1..Len(notion_posts) :
                notion_posts[j].paper = notion_posts[k].paper => j = k
    /\ pc = "finished" => Posted = Succeeded

C11_Witness ==
    /\ pc = "finished"
    /\ arxiv_papers = <<Title1, Title2>>
    /\ existing_titles = {Title1}
    /\ analyzed = <<[paper |-> 2, returned |-> "Unrelated"]>>
    /\ notion_posts = <<[paper |-> 2, related_status |-> "Unrelated"]>>

\* the positions of tag i in t, letter case ignored
TagPositions(i, t) == {p \in 1..Len(t) : SaysAt(Bracket(tags[i]), t, p)}

\* t holds each of the five tags once, in the order of tags
AllTagsInOrder(t) ==
    /\ \A i \in 1..Len(tags) : Cardinality(TagPositions(i, t)) = 1
    /\ \A i \in 1..(Len(tags) - 1) :
          Min(TagPositions(i, t)) < Min(TagPositions(i + 1, t))

\* the trimmed text of t between tag i and the next key's tag, or the end of
\* t for the last key
SectionSpan(i, t) ==
    LET first == Min(TagPositions(i, t)) + Len(Bracket(tags[i]))
        last == IF i < Len(tags) THEN Min(TagPositions(i + 1, t)) - 1 ELSE Len(t)
    IN  Strip(SubSeq(t, first, last))

\* C12: for a response whose summary part holds the five tags in the fixed
\* order, each of the first four keys gets the trimmed text between its tag
\* and the next key's tag, and RESULTS gets the trimmed text from just after
\* its tag to the end of the summary part.
C12_AllTagsEachSectionRecovered ==
    ( /\ CallReturned
      /\ requests # <<>>
      /\ WellFormedReply(LastReply)
      /\ AllTagsInOrder(SummaryOf(LastReply.body)) )
    => /\ IsSuccess(result)
       /\ \A i \in 1..Len(tags) :
             result.summary_parts[i] = SectionSpan(i, SummaryOf(LastReply.body))

\* C13: a response with the separator whose judgment part says neither "yes"
\* nor "no", in any letter case, is rejected: the call returns the failure
\* (None, None) of an unexpected format, and no label.
C13_NeitherYesNorNoRejected ==
    ( /\ CallReturned
      /\ requests # <<>>
      /\ WellFormedReply(LastReply)
      /\ ~Says(Yes, JudgmentOf(LastReply.body))
      /\ ~Says(No, JudgmentOf(LastReply.body)) )
    => /\ result = NoneResult
       /\ printed = "unexpected format"

\* C14: a response that the first separator splits into an empty (or
\* whitespace-only) summary part or an empty judgment part is rejected: the
\* call returns the failure (None, None) of an unexpected format.
C14_EmptyPartRejected ==
    ( /\ CallReturned
      /\ requests # <<>>
      /\ WellFormedReply(LastReply)
      /\ \/ SummaryOf(LastReply.body) = <<>>
         \/ Strip(JudgmentOf(LastReply.body)) = <<>> )
    => /\ result = NoneResult
       /\ printed = "unexpected format"

Exhausted == current_model_index = Len(MODEL_LIST)

\* C15: the cursor reaches the roster length exactly when the service has
\* given as many quota signals in the run as the roster has models, and from
\* then on it stays there: no request is sent to the service, every call
\* that returns returns (None, None), and no paper is added to those to
\* publish.
C15_ExhaustionIsPermanent ==
    /\ [](/\ current_model_index <= Len(MODEL_LIST)
          /\ Exhausted <=> quota_signals = Len(MODEL_LIST))
    /\ [][ Exhausted =>
             /\ Exhausted'
             /\ pc' # "generate"
             /\ requests' \in {requests, <<>>}
             /\ last_requested' = last_requested
             /\ pc' = "returned" => result' = NoneResult
             /\ final_papers_to_add' = final_papers_to_add ]_vars

C15_Witness ==
    /\ Exhausted
    /\ quota_signals = Len(MODEL_LIST)
    /\ paper = 2
    /\ entry_index = Len(MODEL_LIST)
    /\ pc = "main"
    /\ requests = <<>>
    /\ analyzed[1].returned = "None"
    /\ analyzed[2].returned = "None"

\* C16: the cursor changes only when the program takes a quota signal, and
\* then by one: the step that takes any other reply (a response that gives a
\* result, a response in an unexpected format, an overload signal, another
\* error) and every step of the download, of main() and of the return leave
\* it as it was; so the cursor equals the number of quota signals the run has
\* had so far.
C16_CursorCountsQuotaSignals ==
    /\ [](current_model_index = quota_signals)
    /\ [][ /\ current_model_index' # current_model_index =>
                /\ Received
                /\ requests'[Len(requests')].reply \in QuotaReplies
                /\ current_model_index' = current_model_index + 1
           /\ (Received /\ requests'[Len(requests')].reply \notin QuotaReplies) =>
                current_model_index' = current_model_index
           /\ (pc = "download" \/ pc' = "returned") =>
                current_model_index' = current_model_index ]_vars

C16_Witness ==
    /\ paper = 2
    /\ pc = "returned"
    /\ current_model_index = 1
    /\ quota_signals = 1
    /\ entry_index = 1
    /\ analyzed[1].returned = "Related"
    /\ Len(requests) = 2
    /\ requests[1].reply \in OverloadReplies
    /\ requests[2].reply = ErrorReply("ServerError", MsgInternal)
    /\ result = NoneResult

\* an error of the service that is neither an overload nor a quota signal
OtherError(r) ==
    /\ r.kind = "error"
    /\ ~Says(Overload, r.body)
    /\ ~Says(ResourceExhausted, r.body)
    /\ ~Says(Quota, r.body)

\* C17: an error of the service that is neither an overload signal nor a
\* quota signal ends the call at once with (None, None): the request it
\* answers is the last one of the call, the cursor still points at the model
\* that was asked, and no pause follows it.
C17_OtherErrorFailsAtOnce ==
    /\ [](paper >= 1 =>
            \A j \in 1..Len(requests) :
                OtherError(requests[j].reply)
                => /\ j = Len(requests)
                   /\ CallReturned
                   /\ result = NoneResult
                   /\ printed = "unexpected error"
                   /\ current_model_index = ModelIndex(requests[j].model)
                   /\ Len(sleeps) = j - 1)
    /\ [][ (Received /\ OtherError(requests'[Len(requests')].reply))
           => /\ pc' = "returned"
              /\ result' = NoneResult
              /\ sleeps' = sleeps
              /\ current_model_index' = current_model_index ]_vars

C17_Witness ==
    /\ pc = "returned"
    /\ current_model_index = 1
    /\ Len(requests) = 2
    /\ requests[1].reply \in QuotaReplies
    /\ requests[2] = [model |-> MODEL_LIST[2],
                      reply |-> ErrorReply("ServerError", MsgInternal)]
    /\ sleeps = <<QuotaSleep>>
    /\ result = NoneResult
    /\ printed = "unexpected error"

\* the current call of analyze_paper_with_gemini has not returned
InCall == pc \in {"download", "while", "generate"}

\* C18: with a service that gives at most MaxOverload overload signals in a
\* call, every call of analyze_paper_with_gemini returns; the run has at most
\* as many quota signals as the roster has models; and with a service that
\* answers every request with an overload signal, a call that has sent a
\* request never returns: it pauses and sends the next request, again and
\* again.
C18_ReturnsUnlessOverloadedForever ==
    /\ (service = "answering" /\ InCall) ~> (pc = "returned")
    /\ [](quota_signals <= Len(MODEL_LIST))
    /\ [](service = "overloaded" => quota_signals = 0)
    /\ [][(service = "overloaded" /\ pc \in {"while", "generate"})
             => pc' \in {"while", "generate"}]_vars
    /\ (service = "overloaded" /\ pc = "generate") ~> (pc = "while")
    /\ (service = "overloaded" /\ pc = "while") ~> (pc = "generate")

C18_Witness ==
    /\ service = "overloaded"
    /\ pc = "generate"
    /\ Len(requests) = HistoryLimit
    /\ \A j \in 1..(HistoryLimit - 1) : requests[j].reply \in OverloadReplies
    /\ sleeps = [j \in 1..HistoryLimit |-> OverloadSleep]
    /\ current_model_index = 0

\* what the program has done with the error that answered its first request
RetriedSameModel ==
    /\ pc = "while"
    /\ current_model_index = entry_index
    /\ sleeps = <<OverloadSleep>>
    /\ result = NotReturned
    /\ ENABLED GenerateContent
AdvancedCursor ==
    /\ pc = "while"
    /\ current_model_index = entry_index + 1
    /\ sleeps = <<QuotaSleep>>
    /\ result = NotReturned
FailedAtOnce ==
    /\ pc = "returned"
    /\ current_model_index = entry_index
    /\ sleeps = <<>>
    /\ result = NoneResult
    /\ printed = "unexpected error"

\* C19: an error is classified with the overload test first, the quota test
\* second: an error whose message says "overload" is answered by the pause
\* and the retry of the same model, also when it says "quota" or
\* "resource_exhausted" as well; one that only says "quota" or
\* "resource_exhausted" by the advance of the cursor; any other by the
\* failure (None, None); and exactly one of the three happens.
C19_OverloadBeforeQuotaBeforeOther ==
    (pc # "generate" /\ Len(requests) = 1 /\ LastReply.kind = "error")
    => LET msg == LastReply.body
           overload == Says(Overload, msg)
           quota == Says(ResourceExhausted, msg) \/ Says(Quota, msg)
       IN  /\ overload => RetriedSameModel
           /\ (~overload /\ quota) => AdvancedCursor
           /\ (~overload /\ ~quota) => FailedAtOnce
           /\ Cardinality({o \in {"retry", "advance", "fail"} :
                               \/ o = "retry" /\ RetriedSameModel
                               \/ o = "advance" /\ AdvancedCursor
                               \/ o = "fail" /\ FailedAtOnce}) = 1

C19_Witness ==
    /\ pc = "while"
    /\ requests = <<[model |-> MODEL_LIST[1],
                     reply |-> ErrorReply("ServerError", MsgOverloadedQuota)]>>
    /\ current_model_index = 0
    /\ sleeps = <<OverloadSleep>>

====
